---- MODULE Spec2Model ----
(***************************************************************************)
(* Model of gotestdox's Prettify (src/prettifier.go): a two-state lexer    *)
(* that turns a Go test name into a sentence.                              *)
(*                                                                         *)
(* Strings are sequences of Unicode code points (Go: []rune); slices are   *)
(* zero-based as in the source.  One action is one iteration of the `for`  *)
(* loop of a state function (betweenWords, inWord); Return is the join     *)
(* that follows the state loop of Prettify.                                *)
(***************************************************************************)
EXTENDS Integers, Sequences, FiniteSets, TLC

VARIABLES
    raw,     \* the argument of Prettify
    p,       \* the prettifier: input, start, pos, words, inSubTest, seenUnderscore
    state,   \* the state function to run next: "betweenWords", "inWord",
             \* "nil" (the state loop is over), "done" (Prettify has returned),
             \* "panic" (an index was out of range)
    result,  \* the string returned
    steps,   \* history: iterations of the state functions so far
    hist,    \* history: one record per call of emit, in order
    heap,    \* concurrent calls: the prettifiers allocated, by address
    calls    \* concurrent calls: per call its argument, the address of its
             \* prettifier, its state, its result and its iterations so far

vars == <<raw, p, state, result, steps, hist, heap, calls>>

----------------------------------------------------------------------------
(* Code points *)

eof == 0
Space == 32
Hyphen == 45
Slash == 47
One == 49
Equals == 61
UpperK == 75
UpperO == 79
UpperT == 84
Underscore == 95
LowerE == 101
LowerS == 115
LowerT == 116
UpperEAcute == 201

(* unicode.IsUpper, unicode.IsLower, unicode.IsDigit on the Latin-1 range *)
IsUpper(r) == (r >= 65 /\ r <= 90) \/ (r >= 192 /\ r <= 222 /\ r # 215)

IsLower(r) == (r >= 97 /\ r <= 122) \/ (r >= 223 /\ r <= 255 /\ r # 247)
              \/ r = 170 \/ r = 181 \/ r = 186

IsDigit(r) == r >= 48 /\ r <= 57

(* Simple case mappings of the runes that have one in the Latin-1 range *)
ToLower(r) == IF IsUpper(r) THEN r + 32 ELSE r

ToTitle(r) ==
    IF (r >= 97 /\ r <= 122) \/ (r >= 224 /\ r <= 254 /\ r # 247) THEN r - 32 ELSE r

(* Runes that x/text/cases treats as cased letters *)
IsCased(r) == IsUpper(r) \/ IsLower(r)

(* Runes that end a word for x/text/cases: everything that is not a       *)
(* letter, a digit (Word_Break Numeric) or '_' (ExtendNumLet).  The        *)
(* MidLetter runes (' . :) are outside the modelled alphabet.              *)
IsBreak(r) == ~IsCased(r) /\ ~IsDigit(r) /\ r # Underscore

(* Bytes of the UTF-8 encoding of a rune: Go's len(string) counts these *)
RuneLen(r) == IF r < 128 THEN 1 ELSE IF r < 2048 THEN 2 ELSE IF r < 65536 THEN 3 ELSE 4

RECURSIVE ByteLen(_)
ByteLen(s) == IF s = <<>> THEN 0 ELSE RuneLen(Head(s)) + ByteLen(Tail(s))

----------------------------------------------------------------------------
(* Go slices, zero-based *)

InRange(s, i) == i >= 0 /\ i < Len(s)

At(s, i) == s[i + 1]

SliceOK(s, lo, hi) == 0 <= lo /\ lo <= hi /\ hi <= Len(s)

Slice(s, lo, hi) == SubSeq(s, lo + 1, hi)

----------------------------------------------------------------------------
(* Library functions used by the source *)

TestPrefix == <<UpperT, LowerE, LowerS, LowerT>>

HasPrefix(s, prefix) ==
    Len(s) >= Len(prefix) /\ SubSeq(s, 1, Len(prefix)) = prefix

(* strings.TrimLeft with "Test" as the cutset, in place of TrimPrefix *)
RECURSIVE TrimCutset(_, _)
TrimCutset(s, prefix) ==
    IF s # <<>> /\ \E i \in 1..Len(prefix) : prefix[i] = Head(s)
    THEN TrimCutset(Tail(s), prefix)
    ELSE s

(* strings.TrimPrefix *)
TrimPrefix(s, prefix) ==
    IF HasPrefix(s, prefix) THEN SubSeq(s, Len(prefix) + 1, Len(s)) ELSE s

(* cases.Lower(language.Und).String *)
Lower(word) == [i \in 1..Len(word) |-> ToLower(word[i])]

(* cases.Title(language.Und, cases.NoLower).String: the first cased rune  *)
(* of every word of the string is title-cased, the others are copied       *)
RECURSIVE TitleFrom(_, _)
TitleFrom(word, isMidWord) ==
    IF word = <<>> THEN <<>>
    ELSE LET r == Head(word) IN
         IF IsCased(r)
         THEN <<(IF isMidWord THEN r ELSE ToTitle(r))>> \o TitleFrom(Tail(word), TRUE)
         ELSE <<r>> \o TitleFrom(Tail(word), isMidWord /\ ~IsBreak(r))

Title(word) == TitleFrom(word, FALSE)

(* a join that writes the separator after every word *)
RECURSIVE JoinTrailing(_, _)
JoinTrailing(ws, sep) ==
    IF ws = <<>> THEN <<>> ELSE ws[1] \o sep \o JoinTrailing(Tail(ws), sep)

(* strings.Join *)
RECURSIVE Join(_, _)
Join(ws, sep) ==
    IF ws = <<>> THEN <<>>
    ELSE IF Len(ws) = 1 THEN ws[1]
    ELSE ws[1] \o sep \o Join(Tail(ws), sep)

----------------------------------------------------------------------------
(* The prettifier and its methods *)

NewPrettifier(in) ==
    [input |-> TrimPrefix(in, TestPrefix),
     start |-> 0,
     pos |-> 0,
     words |-> <<>>,
     inSubTest |-> FALSE,
     seenUnderscore |-> FALSE]

skip(q) == [q EXCEPT !.start = q.pos]

prevIndex(q) == q.pos - 1

prev(q) == At(q.input, prevIndex(q))

(* next() without the clamp at the end of the input *)
nextIndexUnclamped(q) == q.pos + 1

nextIndex(q) == IF q.pos + 1 >= Len(q.input) THEN q.pos ELSE q.pos + 1

next(q) == At(q.input, nextIndex(q))

peek(q) == IF q.pos >= Len(q.input) THEN eof ELSE At(q.input, q.pos)

(* a walk that forgets to advance *)
walkInPlace(q) == q

(* walk returns peek(q) and leaves the prettifier as walk(q) *)
walk(q) == [q EXCEPT !.pos = q.pos + 1]

isInitialismEnd(q) == IF q.pos - 1 < q.start THEN q.start ELSE q.pos - 1

(* an emit that never recognises an initialism *)
isInitialismNever(q) == FALSE

isInitialism(q) ==
    LET end == isInitialismEnd(q) IN
    /\ \A i \in q.start..(end - 1) : ~IsLower(At(q.input, i))
    /\ \/ IsUpper(At(q.input, end))
       \/ IsDigit(At(q.input, end))
       \/ At(q.input, end) = LowerS

inInitialism(q) ==
    \/ IsUpper(prev(q)) /\ IsUpper(next(q))
    \/ IsUpper(prev(q)) /\ IsDigit(next(q))
    \/ IsUpper(prev(q)) /\ next(q) = LowerS

(* an emit without the exception for "OK" *)
emitWordLoweringOK(q) ==
    LET word == Slice(q.input, q.start, q.pos) IN
    IF Len(q.words) = 0 THEN Title(word)
    ELSE IF ByteLen(word) < 3 THEN Lower(word)
    ELSE IF isInitialism(q) THEN word
    ELSE Lower(word)

(* The word that emit appends *)
emitWord(q) ==
    LET word == Slice(q.input, q.start, q.pos) IN
    IF Len(q.words) = 0 THEN Title(word)
    ELSE IF ByteLen(word) < 3
         THEN (IF word = <<UpperO, UpperK>> THEN word ELSE Lower(word))
    ELSE IF isInitialism(q) THEN word
    ELSE Lower(word)

(* an emit that starts the word list again *)
emitOverwriting(q) == skip([q EXCEPT !.words = <<emitWord(q)>>])

emit(q) == skip([q EXCEPT !.words = Append(q.words, emitWord(q))])

RECURSIVE ConcatTitles(_)
ConcatTitles(ws) ==
    IF ws = <<>> THEN <<>> ELSE Title(Head(ws)) \o ConcatTitles(Tail(ws))

(* a fold that does not set the flag *)
multiWordFunctionForgetting(q) ==
    [q EXCEPT !.words = <<ConcatTitles(q.words)>>]

(* a fold that keeps the last word only *)
multiWordFunctionKeepingLast(q) ==
    [q EXCEPT !.words = <<Title(q.words[Len(q.words)])>>, !.seenUnderscore = TRUE]

multiWordFunction(q) ==
    [q EXCEPT !.words = <<ConcatTitles(q.words)>>, !.seenUnderscore = TRUE]

----------------------------------------------------------------------------
(* Whether the indexing done by each method is within bounds; Go panics   *)
(* otherwise                                                               *)

prevOK(q) == InRange(q.input, prevIndex(q))

nextOK(q) == InRange(q.input, nextIndex(q))

inInitialismOK(q) == prevOK(q) /\ (IsUpper(prev(q)) => nextOK(q))

isInitialismOK(q) ==
    LET end == isInitialismEnd(q) IN
    /\ SliceOK(q.input, q.start, end)
    /\ (\A i \in q.start..(end - 1) : ~IsLower(At(q.input, i)))
           => InRange(q.input, end)

emitOK(q) ==
    /\ SliceOK(q.input, q.start, q.pos)
    /\ (Len(q.words) # 0 /\ ByteLen(Slice(q.input, q.start, q.pos)) >= 3)
           => isInitialismOK(q)

logStateOK(q) == SliceOK(q.input, q.start, q.pos)

----------------------------------------------------------------------------
(* The state functions: one iteration of the loop of each.  The result is *)
(* the prettifier after the iteration, the state the scan is in then       *)
(* ("nil" once the state function has returned nil, "panic" when an index  *)
(* was out of range), and whether the iteration emitted a word.            *)

Outcome(q, s, e) == [p |-> q, state |-> s, emitted |-> e]

(* betweenWords that discards '_' only *)
betweenWordsKeepingSlash(q) ==
    IF ~logStateOK(q) THEN Outcome(q, "panic", FALSE)
    ELSE LET r == peek(q) IN
         IF r = eof THEN Outcome(walk(q), "nil", FALSE)
         ELSE IF r = Underscore
              THEN Outcome(skip(walk(q)), "betweenWords", FALSE)
         ELSE Outcome(walk(q), "inWord", FALSE)

betweenWords(q) ==
    IF ~logStateOK(q) THEN Outcome(q, "panic", FALSE)
    ELSE LET r == peek(q) IN
         IF r = eof THEN Outcome(walk(q), "nil", FALSE)
         ELSE IF r = Underscore \/ r = Slash
              THEN Outcome(skip(walk(q)), "betweenWords", FALSE)
         ELSE Outcome(walk(q), "inWord", FALSE)

(* emit, then the fold at every underscore outside a subtest *)
emitThenFoldingAgain(q, after, s) ==
    IF ~emitOK(q) THEN Outcome(q, "panic", FALSE)
    ELSE Outcome(IF after = "fold" /\ ~q.inSubTest
                     THEN multiWordFunction(emit(q))
                 ELSE IF after = "subtest" THEN [emit(q) EXCEPT !.inSubTest = TRUE]
                 ELSE emit(q),
                 s, TRUE)

(* emit, then what the case does after it *)
emitThen(q, after, s) ==
    IF ~emitOK(q) THEN Outcome(q, "panic", FALSE)
    ELSE Outcome(IF after = "fold" /\ ~q.seenUnderscore /\ ~q.inSubTest
                     THEN multiWordFunction(emit(q))
                 ELSE IF after = "subtest" THEN [emit(q) EXCEPT !.inSubTest = TRUE]
                 ELSE emit(q),
                 s, TRUE)

(* the digit case without the test for a negative number *)
inWordDigitSplittingNegative(q) ==
    IF ~prevOK(q) THEN Outcome(q, "panic", FALSE)
    ELSE IF IsDigit(prev(q)) THEN Outcome(walk(q), "inWord", FALSE)
    ELSE IF prev(q) = Equals THEN Outcome(walk(q), "inWord", FALSE)
    ELSE IF ~inInitialismOK(q) THEN Outcome(q, "panic", FALSE)
    ELSE IF inInitialism(q) THEN Outcome(walk(q), "inWord", FALSE)
    ELSE emitThen(q, "none", "betweenWords")

inWordDigit(q) ==
    IF ~prevOK(q) THEN Outcome(q, "panic", FALSE)
    ELSE IF IsDigit(prev(q)) THEN Outcome(walk(q), "inWord", FALSE)
    ELSE IF prev(q) = Hyphen THEN Outcome(walk(q), "inWord", FALSE)
    ELSE IF prev(q) = Equals THEN Outcome(walk(q), "inWord", FALSE)
    ELSE IF ~inInitialismOK(q) THEN Outcome(q, "panic", FALSE)
    ELSE IF inInitialism(q) THEN Outcome(walk(q), "inWord", FALSE)
    ELSE emitThen(q, "none", "betweenWords")

inWordUpper(q) ==
    IF ~inInitialismOK(q) THEN Outcome(q, "panic", FALSE)
    ELSE IF inInitialism(q) THEN Outcome(walk(q), "inWord", FALSE)
    ELSE emitThen(q, "none", "betweenWords")

(* inWord that returns at the end of the input without emitting *)
inWordDroppingLast(q) ==
    IF ~logStateOK(q) THEN Outcome(q, "panic", FALSE)
    ELSE LET r == peek(q) IN
         IF r = eof THEN Outcome(q, "nil", FALSE)
         ELSE IF r = Underscore THEN emitThen(q, "fold", "betweenWords")
         ELSE IF r = Slash THEN emitThen(q, "subtest", "betweenWords")
         ELSE IF IsDigit(r) THEN inWordDigit(q)
         ELSE IF IsUpper(r) THEN inWordUpper(q)
         ELSE Outcome(walk(q), "inWord", FALSE)

inWord(q) ==
    IF ~logStateOK(q) THEN Outcome(q, "panic", FALSE)
    ELSE LET r == peek(q) IN
         IF r = eof THEN emitThen(q, "none", "nil")
         ELSE IF r = Underscore THEN emitThen(q, "fold", "betweenWords")
         ELSE IF r = Slash THEN emitThen(q, "subtest", "betweenWords")
         ELSE IF IsDigit(r) THEN inWordDigit(q)
         ELSE IF IsUpper(r) THEN inWordUpper(q)
         ELSE Outcome(walk(q), "inWord", FALSE)

----------------------------------------------------------------------------
(* Inputs *)

MaxLen == 3
MaxWordLen == 4
MaxFuncLen == 5
MaxTests == 2
MaxMid == 1

SeqsUpTo(S, n) == UNION {[1..k -> S] : k \in 0..n}

Alphabet ==
    {eof, Space, Hyphen, Slash, One, Equals, UpperK, UpperO, Underscore,
     LowerE, LowerS, UpperEAcute}

WordAlphabet == {UpperK, UpperO, LowerE, LowerS, UpperEAcute, One, Underscore}

SubTestAlphabet == {UpperO, LowerE, Underscore, Slash}

FuncAlphabet == {UpperK, UpperO, LowerE, LowerS}

Rests == {<<>>, <<UpperO, LowerE>>}

RECURSIVE Tests(_)
Tests(n) == IF n = 0 THEN <<>> ELSE TestPrefix \o Tests(n - 1)

(* any code points *)
FullInputs == SeqsUpTo(Alphabet, MaxLen)

(* longer names over letters, a digit and the underscore *)
WordInputs == SeqsUpTo(WordAlphabet, MaxWordLen)

(* names with subtests *)
SubTestInputs == SeqsUpTo(SubTestAlphabet, MaxWordLen)

(* "Test" + F + "_" + rest, F a function name *)
FuncNames ==
    {f \in SeqsUpTo(FuncAlphabet, MaxFuncLen) : f # <<>> /\ IsUpper(f[1])}

FuncInputs ==
    {TestPrefix \o f \o <<Underscore>> \o rest : f \in FuncNames, rest \in Rests}

(* "Test" repeated at the start and later in the name *)
PrefixInputs ==
    {Tests(n) \o mid \o Tests(m) :
        n \in 0..MaxTests, m \in 0..MaxTests,
        mid \in SeqsUpTo({UpperO, LowerE, LowerS, Underscore}, MaxMid)}

Inputs ==
    FullInputs \cup WordInputs \cup SubTestInputs \cup FuncInputs \cup PrefixInputs

----------------------------------------------------------------------------
(* Prettify, one call *)

Init ==
    /\ raw \in Inputs
    /\ p = NewPrettifier(raw)
    /\ state = "betweenWords"
    /\ result = <<>>
    /\ steps = 0
    /\ hist = <<>>
    /\ heap = <<>>
    /\ calls = <<>>

(* what emit logs: the scanned span, the scanned word, the word appended  *)
Emission(q) ==
    [lo |-> q.start, hi |-> q.pos,
     scanned |-> Slice(q.input, q.start, q.pos),
     word |-> emit(q).words[Len(emit(q).words)],
     index |-> Len(q.words),
     folded |-> q.seenUnderscore]

(* the same, with the rune that ended the word, the inSubTest flag at the *)
(* time, and whether multiWordFunction ran after the emit (after is the    *)
(* prettifier the iteration leaves)                                        *)
Logged(q, after) ==
    Emission(q) @@
    [next |-> peek(q),
     subtest |-> q.inSubTest,
     fired |-> \/ after.seenUnderscore # q.seenUnderscore
               \/ after.words # emit(q).words]

Step(o) ==
    /\ p' = o.p
    /\ state' = o.state
    /\ hist' = IF o.emitted THEN Append(hist, Logged(p, o.p)) ELSE hist
    /\ steps' = steps + 1
    /\ UNCHANGED <<raw, result, heap, calls>>

BetweenWords ==
    /\ state = "betweenWords"
    /\ Step(betweenWords(p))

InWord ==
    /\ state = "inWord"
    /\ Step(inWord(p))

Return ==
    /\ state = "nil"
    /\ result' = Join(p.words, <<Space>>)
    /\ state' = "done"
    /\ UNCHANGED <<raw, p, steps, hist, heap, calls>>

Next == BetweenWords \/ InWord \/ Return

Spec == Init /\ [][Next]_vars

FairSpec == Spec /\ WF_vars(Next)

----------------------------------------------------------------------------
(* Prettify, two calls at once, tracing disabled.  Each call allocates its *)
(* prettifier on entry and then runs its state loop; the iterations of the *)
(* calls interleave in any order.                                          *)

MaxConcLen == 3

CallIds == {1, 2}

ConcAlphabet == {UpperO, LowerE, Underscore}

ConcInputs == SeqsUpTo(ConcAlphabet, MaxConcLen)

(* one prettifier for all calls, in place of a fresh one for each *)
allocShared(h) == 1

(* the address of p := &prettifier{...}: a fresh one *)
alloc(h) == Len(h) + 1

Store(h, a, v) == IF a = Len(h) + 1 THEN Append(h, v) ELSE [h EXCEPT ![a] = v]

ConcInit ==
    /\ calls \in [CallIds -> {[raw |-> in, ptr |-> 0, state |-> "entry",
                               result |-> <<>>, steps |-> 0] : in \in ConcInputs}]
    /\ heap = <<>>
    /\ raw = <<>>
    /\ p = NewPrettifier(raw)
    /\ state = "idle"
    /\ result = <<>>
    /\ steps = 0
    /\ hist = <<>>

Sequential == <<raw, p, state, result, steps, hist>>

Enter(c) ==
    /\ calls[c].state = "entry"
    /\ heap' = Store(heap, alloc(heap), NewPrettifier(calls[c].raw))
    /\ calls' = [calls EXCEPT ![c].ptr = alloc(heap), ![c].state = "betweenWords"]
    /\ UNCHANGED Sequential

CallStep(c, o) ==
    /\ heap' = [heap EXCEPT ![calls[c].ptr] = o.p]
    /\ calls' = [calls EXCEPT ![c].state = o.state, ![c].steps = @ + 1]
    /\ UNCHANGED Sequential

CallBetweenWords(c) ==
    /\ calls[c].state = "betweenWords"
    /\ CallStep(c, betweenWords(heap[calls[c].ptr]))

CallInWord(c) ==
    /\ calls[c].state = "inWord"
    /\ CallStep(c, inWord(heap[calls[c].ptr]))

CallReturn(c) ==
    /\ calls[c].state = "nil"
    /\ calls' = [calls EXCEPT ![c].state = "done",
                              ![c].result = Join(heap[calls[c].ptr].words, <<Space>>)]
    /\ UNCHANGED <<heap, raw, p, state, result, steps, hist>>

ConcNext ==
    \E c \in CallIds :
        Enter(c) \/ CallBetweenWords(c) \/ CallInWord(c) \/ CallReturn(c)

ConcSpec == ConcInit /\ [][ConcNext]_vars

----------------------------------------------------------------------------
(* Helpers of the properties *)

Range(s) == {s[i] : i \in 1..Len(s)}

IsString(s) == s \in Seq(Nat)

Scanning == state \in {"betweenWords", "inWord"}

Finished == state = "done"

----------------------------------------------------------------------------
(* C1: Prettify never fails.  For every input no index made by prev, next, *)
(* peek, isInitialism, emit or logState is out of range in any reachable   *)
(* state (no state function panics), and what is returned is a string.     *)
C1_NeverFails ==
    /\ state # "panic"
    /\ Scanning => logStateOK(p)
    /\ state = "inWord" =>
          /\ prevOK(p)
          /\ emitOK(p)
          /\ (IsDigit(peek(p)) \/ IsUpper(peek(p))) => inInitialismOK(p)
    /\ Finished => IsString(result)

(* an input that ends in two uppercase letters has been scanned to the    *)
(* end: next() was asked for the rune after the last one                   *)
C1_Witness ==
    /\ Finished
    /\ Len(p.input) >= 2
    /\ IsUpper(p.input[Len(p.input)])
    /\ IsUpper(p.input[Len(p.input) - 1])
    /\ Len(hist) >= 1
    /\ hist[Len(hist)].hi = Len(p.input)

----------------------------------------------------------------------------
(* C2: the scan terminates on every input.  pos never decreases; every     *)
(* Between-words iteration and every In-word iteration that emits nothing  *)
(* advances pos by one; the number of iterations stays within              *)
(* 2 * len(input) + 1; and the state loop reaches nil and Prettify returns.*)
StepBound == 2 * Len(p.input) + 1

C2_ScanTerminates ==
    /\ <>Finished
    /\ [](steps <= StepBound)
    /\ [][/\ p'.pos >= p.pos
          /\ state = "betweenWords" => p'.pos = p.pos + 1
          /\ (state = "inWord" /\ hist' = hist) => p'.pos = p.pos + 1
          /\ (state = "inWord" /\ hist' # hist) => p'.pos = p.pos]_vars

(* a scan that took the whole budget of iterations, boundary steps among  *)
(* them, has returned                                                      *)
C2_Witness ==
    /\ Finished
    /\ Len(p.input) >= 3
    /\ Len(hist) >= 2
    /\ steps = 2 * Len(p.input)

----------------------------------------------------------------------------
(* C3 *)
WellSpaced(s) ==
    /\ s # <<>> => (s[1] # Space /\ s[Len(s)] # Space)
    /\ \A i \in 1..(Len(s) - 1) : ~(s[i] = Space /\ s[i + 1] = Space)

(* C3 as stated: for any input, the string returned has no leading space, *)
(* no trailing space and no two consecutive spaces.                        *)
C3_NoStraySpaces == Finished => WellSpaced(result)

(* C3, amended: for any input that contains no space character, the       *)
(* string returned has no leading space, no trailing space and no two      *)
(* consecutive spaces.                                                     *)
C3_NoStraySpacesWithoutSpaceInInput ==
    (Finished /\ Space \notin Range(raw)) => WellSpaced(result)

(* several words were joined *)
C3_Witness ==
    /\ Finished
    /\ Space \notin Range(raw)
    /\ Len(p.words) >= 3
    /\ Space \in Range(result)

----------------------------------------------------------------------------
(* C4 *)
IsLetterOrDigit(r) == IsCased(r) \/ IsDigit(r)

(* index of the first '_' of s, 0 when there is none *)
FirstUnderscore(s) ==
    IF Underscore \in Range(s)
    THEN CHOOSE i \in 1..Len(s) :
             s[i] = Underscore /\ \A j \in 1..(i - 1) : s[j] # Underscore
    ELSE 0

(* the F of an input "Test" + F + "_" + rest *)
FuncNameOf(in) ==
    LET body == SubSeq(in, Len(TestPrefix) + 1, Len(in)) IN
    SubSeq(body, 1, FirstUnderscore(body) - 1)

IsFuncInput(in) ==
    /\ HasPrefix(in, TestPrefix)
    /\ FirstUnderscore(SubSeq(in, Len(TestPrefix) + 1, Len(in))) > 1
    /\ IsUpper(FuncNameOf(in)[1])
    /\ \A i \in 1..Len(FuncNameOf(in)) : IsLetterOrDigit(FuncNameOf(in)[i])

(* C4 as stated: for every input "Test" + F + "_" + rest, F a non-empty   *)
(* run of letters and digits that starts with an uppercase letter, the     *)
(* first word of the output is exactly F.                                  *)
C4_FunctionNameKept ==
    (Finished /\ IsFuncInput(raw)) =>
        (Len(p.words) >= 1 /\ p.words[1] = FuncNameOf(raw))

----------------------------------------------------------------------------
(* C5 *)

(* the length of the run of uppercase letters that word w ends with *)
RECURSIVE UpperTail(_)
UpperTail(w) ==
    IF w = <<>> \/ ~IsUpper(w[Len(w)]) THEN 0
    ELSE 1 + UpperTail(SubSeq(w, 1, Len(w) - 1))

(* the emissions so far of words that are not the first and end in a run  *)
(* of at least n uppercase letters *)
UpperRunEmissions(n) ==
    {i \in 1..Len(hist) : hist[i].index > 0 /\ UpperTail(hist[i].scanned) >= n}

(* such a word is appended as scanned, and stays in the word list as      *)
(* scanned for as long as no fold merges it into the function name         *)
KeptVerbatim(e) ==
    /\ e.word = e.scanned
    /\ e.folded = p.seenUnderscore => p.words[e.index + 1] = e.scanned

----------------------------------------------------------------------------
(* C6: whenever the word scanned for emit is exactly "OK", the word        *)
(* appended to the word list is "OK", whether it is the first word or a    *)
(* later one and whether or not the fold has happened.                     *)
OK == <<UpperO, UpperK>>

C6_OKVerbatim ==
    \A i \in 1..Len(hist) : hist[i].scanned = OK => hist[i].word = OK

(* "OK" was emitted as a later word after the fold *)
C6_Witness ==
    \E i \in 1..Len(hist) :
        /\ hist[i].scanned = OK
        /\ hist[i].index > 0
        /\ hist[i].folded
        /\ p.words[Len(p.words)] = OK

----------------------------------------------------------------------------
(* C7: numbers are never split.  For a digit that immediately follows a    *)
(* digit, a '-' or a '=', no word starts at the digit, every emitted word  *)
(* holds both characters or neither, and once the scan is past the digit   *)
(* both are in one emitted word.                                           *)

(* the zero-based positions of such digits *)
NumberJoints ==
    {i \in 1..(Len(p.input) - 1) :
        /\ IsDigit(At(p.input, i))
        /\ \/ IsDigit(At(p.input, i - 1))
           \/ At(p.input, i - 1) = Hyphen
           \/ At(p.input, i - 1) = Equals}

Covers(e, i) == e.lo <= i /\ i < e.hi

C7_NumbersNotSplit ==
    \A i \in NumberJoints :
        /\ p.start # i
        /\ \A k \in 1..Len(hist) : Covers(hist[k], i - 1) <=> Covers(hist[k], i)
        /\ (\E k \in 1..Len(hist) : hist[k].hi > i - 1) =>
              \E k \in 1..Len(hist) : Covers(hist[k], i - 1) /\ Covers(hist[k], i)

(* a negative number and a key=value number were emitted, each whole *)
C7_Witness ==
    /\ Finished
    /\ \E i, j \in NumberJoints :
          /\ At(p.input, i - 1) = Hyphen
          /\ At(p.input, j - 1) \in {Equals, One}
          /\ \E k \in 1..Len(hist) : Covers(hist[k], i - 1) /\ Covers(hist[k], i)
          /\ \E k \in 1..Len(hist) : Covers(hist[k], j - 1) /\ Covers(hist[k], j)

----------------------------------------------------------------------------
(* C8 *)
IsLetter(r) == IsCased(r)

IsCamelCase(s) ==
    /\ \A i \in 1..Len(s) : IsLetter(s[i])
    /\ \A i \in 1..(Len(s) - 1) : ~(IsUpper(s[i]) /\ IsUpper(s[i + 1]))

(* s cut before every uppercase letter; cur is the word being collected *)
RECURSIVE CamelWords(_, _)
CamelWords(s, cur) ==
    IF s = <<>> THEN (IF cur = <<>> THEN <<>> ELSE <<cur>>)
    ELSE IF IsUpper(Head(s)) /\ cur # <<>>
         THEN <<cur>> \o CamelWords(Tail(s), <<Head(s)>>)
    ELSE CamelWords(Tail(s), Append(cur, Head(s)))

Capitalized(w) == [i \in 1..Len(w) |-> IF i = 1 THEN ToTitle(w[i]) ELSE w[i]]

CamelSentence(s) ==
    LET ws == CamelWords(s, <<>>) IN
    [i \in 1..Len(ws) |-> IF i = 1 THEN Capitalized(ws[i]) ELSE Lower(ws[i])]

(* C8 as stated: in an input made only of letters in which no two         *)
(* uppercase letters are adjacent, every uppercase letter starts a new     *)
(* word, the first word is capitalized, every later word is lower-cased in *)
(* full, and the words are joined in input order by single spaces.         *)
C8_CamelCaseWords ==
    (Finished /\ IsCamelCase(p.input)) =>
        /\ p.words = CamelSentence(p.input)
        /\ result = Join(CamelSentence(p.input), <<Space>>)

----------------------------------------------------------------------------
(* C9: "Test" is removed once and only at the very start.  The scanned     *)
(* input is the raw identifier minus one leading "Test" when it has one,   *)
(* and the raw identifier otherwise; every "Test" that is left in the      *)
(* scanned input, right after the removed one or later, is scanned as the  *)
(* start of a word.                                                        *)
TestsLeft == {k \in 0..(Len(p.input) - Len(TestPrefix)) :
                 Slice(p.input, k, k + Len(TestPrefix)) = TestPrefix}

C9_PrefixRemovedOnce ==
    /\ HasPrefix(raw, TestPrefix) => raw = TestPrefix \o p.input
    /\ ~HasPrefix(raw, TestPrefix) => raw = p.input
    /\ (Finished /\ eof \notin Range(p.input)) =>
          \A k \in TestsLeft :
              \E i \in 1..Len(hist) :
                  hist[i].lo = k /\ hist[i].hi >= k + Len(TestPrefix)

(* "TestTest...Test": the second and the last "Test" were emitted as words *)
C9_Witness ==
    /\ Finished
    /\ HasPrefix(raw, TestPrefix \o TestPrefix)
    /\ Len(hist) >= 3
    /\ hist[1].scanned = TestPrefix
    /\ hist[Len(hist)].scanned = TestPrefix

----------------------------------------------------------------------------
(* C10: when the input, after the prefix is removed, is empty or made only *)
(* of '_' and '/', no word is emitted and the empty string is returned.    *)
C10_OnlySeparators ==
    (Finished /\ Range(p.input) \subseteq {Underscore, Slash}) =>
        /\ hist = <<>>
        /\ p.words = <<>>
        /\ result = <<>>

(* an input with both separators, and nothing else, has returned *)
C10_Witness ==
    /\ Finished
    /\ Range(p.input) = {Underscore, Slash}
    /\ Len(p.input) >= 3
    /\ result = <<>>

----------------------------------------------------------------------------
(* C11: invocations are independent.  With the iterations of two calls     *)
(* interleaved in any order, the prettifier of each call is at every       *)
(* moment what the call alone would have made of it after as many          *)
(* iterations (so no other call has touched its cursor, flags or words),   *)
(* the calls hold different prettifiers, and each call returns what it     *)
(* returns when run alone on the same input.                                *)

(* a call alone, after k iterations of its state functions *)
RECURSIVE SoloAfter(_, _)
SoloAfter(in, k) ==
    IF k = 0 THEN Outcome(NewPrettifier(in), "betweenWords", FALSE)
    ELSE LET before == SoloAfter(in, k - 1) IN
         IF before.state = "betweenWords" THEN betweenWords(before.p)
         ELSE IF before.state = "inWord" THEN inWord(before.p)
         ELSE before

(* what a call alone returns *)
RECURSIVE SoloFrom(_)
SoloFrom(o) ==
    IF o.state = "betweenWords" THEN SoloFrom(betweenWords(o.p))
    ELSE IF o.state = "inWord" THEN SoloFrom(inWord(o.p))
    ELSE Join(o.p.words, <<Space>>)

Entered(c) == calls[c].state # "entry"

C11_CallsIndependent ==
    /\ \A c \in CallIds :
          Entered(c) =>
              LET alone == SoloAfter(calls[c].raw, calls[c].steps) IN
              /\ heap[calls[c].ptr] = alone.p
              /\ calls[c].state \in {alone.state, "done"}
              /\ calls[c].state = "done" => calls[c].result = SoloFrom(alone)
    /\ \A c, d \in CallIds :
          (c # d /\ Entered(c) /\ Entered(d)) => calls[c].ptr # calls[d].ptr

(* both calls are in the middle of a word of different inputs, each with  *)
(* a word emitted already                                                   *)
C11_Witness ==
    /\ calls # <<>>
    /\ calls[1].raw # calls[2].raw
    /\ \A c \in CallIds :
          /\ calls[c].state = "inWord"
          /\ Len(heap[calls[c].ptr].words) >= 1

----------------------------------------------------------------------------
(* C12 as stated: in every reachable state of the scan, from entry up to   *)
(* and including the terminal state, start <= pos <= len(Input).           *)
C12_CursorInvariant == p.start <= p.pos /\ p.pos <= Len(p.input)

----------------------------------------------------------------------------
(* C13 *)

(* zero-based index of the first r in s, Len(s) when there is none *)
FirstIndex(s, r) ==
    IF r \in Range(s)
    THEN CHOOSE i \in 0..(Len(s) - 1) :
             At(s, i) = r /\ \A j \in 0..(i - 1) : At(s, j) # r
    ELSE Len(s)

(* the emissions after which the fold fired *)
Fired == {i \in 1..Len(hist) : hist[i].fired}

AtUnderscore == {i \in 1..Len(hist) : hist[i].next = Underscore}

IsFirstAtUnderscore(i) == i \in AtUnderscore /\ \A j \in AtUnderscore : i <= j

(* a '/' ended a word before emission i *)
SlashEndedAWordBefore(i) == \E j \in 1..(i - 1) : hist[j].next = Slash

----------------------------------------------------------------------------
(* C14 as stated: once a '/' has been consumed by the scan, in either      *)
(* state, inSubTest is true, and from then on no underscore fires the fold *)
(* or merges the words emitted before it.                                   *)
SlashConsumed(q) == \E i \in 0..(q.pos - 1) : InRange(q.input, i) /\ At(q.input, i) = Slash

C14_SubTestAfterSlash ==
    /\ SlashConsumed(p) => p.inSubTest
    /\ \A i \in Fired :
          ~\E k \in 0..(hist[i].hi - 1) : At(p.input, k) = Slash

----------------------------------------------------------------------------
(* C15 *)

Unchanged(ws, after) == after = ws

AppendsOne(ws, after) ==
    /\ Len(after) = Len(ws) + 1
    /\ SubSeq(after, 1, Len(ws)) = ws

(* C15: the fold fires at most once per call: once it has fired          *)
(* seenUnderscore is true and stays true until return, no later           *)
(* underscore merges or rewrites words; inSubTest and seenUnderscore never *)
(* go from true back to false.                                             *)
C15_FoldAtMostOnce ==
    /\ [](/\ Cardinality(Fired) <= 1
          /\ Fired # {} => p.seenUnderscore)
    /\ [][/\ p.seenUnderscore => p'.seenUnderscore
          /\ p.inSubTest => p'.inSubTest
          /\ p.seenUnderscore =>
                Unchanged(p.words, p'.words) \/ AppendsOne(p.words, p'.words)]_vars

(* the fold has fired, and a later underscore ended a word that was       *)
(* appended after the merged word                                          *)
C15_Witness ==
    /\ Finished
    /\ p.seenUnderscore
    /\ \E i \in Fired :
          /\ Cardinality({j \in AtUnderscore : j > i}) >= 1
          /\ Len(p.words) = 1 + Len(hist) - i

----------------------------------------------------------------------------
(* C16 as stated: the word list is append-only: every step leaves it      *)
(* unchanged or appends exactly one word at its end; it never gets shorter *)
(* and a word in it is never changed or removed.                           *)
C16_AppendOnly ==
    [][Unchanged(p.words, p'.words) \/ AppendsOne(p.words, p'.words)]_vars

(* the step at which the fold fires *)
Folds(q, after) ==
    /\ ~q.seenUnderscore
    /\ after.seenUnderscore
    /\ after.words = <<ConcatTitles(Append(q.words, emitWord(q)))>>

(* C16, amended: every step leaves the word list unchanged, appends       *)
(* exactly one word at its end, or, at the one step where the fold fires,  *)
(* replaces the whole list (the words before and the word just scanned) by *)
(* the single word made of their title-cased concatenation; at no other    *)
(* step does the list get shorter or a word in it change.                  *)
C16_AppendOnlyButForTheFold ==
    [][\/ Unchanged(p.words, p'.words)
       \/ AppendsOne(p.words, p'.words)
       \/ Folds(p, p')]_vars

(* the fold merged at least two words and words were appended after it *)
C16_Witness ==
    /\ Finished
    /\ \E i \in Fired : hist[i].index >= 1 /\ i < Len(hist)
    /\ Len(p.words) >= 2

----------------------------------------------------------------------------
(* C17 *)

IsSeparator(r) == r = Underscore \/ r = Slash

(* C17 as stated: end of input is recognised only when the cursor is past *)
(* the last character: the scan never stops while characters remain, and   *)
(* every non-separator character of the input, code point 0 included, ends *)
(* up in an emitted word.                                                  *)
C17_NoCharacterTakenForEof ==
    /\ state \in {"nil", "done"} => p.pos >= Len(p.input)
    /\ Finished =>
          \A k \in 0..(Len(p.input) - 1) :
              ~IsSeparator(At(p.input, k)) =>
                  \E i \in 1..Len(hist) : hist[i].lo <= k /\ k < hist[i].hi

----------------------------------------------------------------------------
(* C18 *)

(* no lowercase letter before the last character, which is uppercase, a *)
(* digit or 's'                                                           *)
InitialismShape(s) ==
    /\ \A i \in 1..(Len(s) - 1) : ~IsLower(s[i])
    /\ IsUpper(s[Len(s)]) \/ IsDigit(s[Len(s)]) \/ s[Len(s)] = LowerS

(* C18 as stated: every word emitted after the first is lower-cased in    *)
(* full when it has fewer than 3 characters and is not "OK"; a word of 3   *)
(* or more characters is left unchanged only if it has the shape of an     *)
(* initialism and is lower-cased in full otherwise; hence every non-first  *)
(* word of the output has no uppercase letter, is "OK", or is such an      *)
(* initialism.                                                             *)
C18_CaseTransformPriority ==
    /\ \A i \in 2..Len(hist) :
          LET s == hist[i].scanned
              w == hist[i].word
          IN  /\ (Len(s) < 3 /\ s # OK) => w = Lower(s)
              /\ Len(s) >= 3 =>
                    w = (IF InitialismShape(s) THEN s ELSE Lower(s))
    /\ \A i \in 2..Len(p.words) :
          LET w == p.words[i] IN
          \/ \A k \in 1..Len(w) : ~IsUpper(w[k])
          \/ w = OK
          \/ Len(w) >= 3 /\ InitialismShape(w)

----------------------------------------------------------------------------
(* C19: Between-words never emits; every visit to In-word emits exactly   *)
(* one word, at the step that returns to Between-words or terminates; at   *)
(* every emission start < pos, so no empty word is appended to the list.   *)
C19_EmissionDiscipline ==
    /\ [](/\ \A i \in 1..Len(hist) :
                hist[i].lo < hist[i].hi /\ hist[i].word # <<>>
          /\ \A i \in 1..Len(p.words) : p.words[i] # <<>>)
    /\ [][/\ state = "betweenWords" =>
                hist' = hist /\ p'.words = p.words
          /\ (state = "inWord" /\ state' = "inWord") =>
                hist' = hist /\ p'.words = p.words
          /\ (state = "inWord" /\ state' \in {"betweenWords", "nil"}) =>
                /\ Len(hist') = Len(hist) + 1
                /\ SubSeq(hist', 1, Len(hist)) = hist
                /\ hist'[Len(hist')].lo = p.start
                /\ hist'[Len(hist')].hi = p.pos
          /\ state = "inWord" => state' \in {"inWord", "betweenWords", "nil"}]_vars

(* two visits to In-word, one of more than one step, the last ended by the *)
(* end of the input                                                        *)
C19_Witness ==
    /\ Finished
    /\ Len(hist) >= 2
    /\ hist[Len(hist)].next = eof
    /\ \E i \in 1..Len(hist) : hist[i].hi - hist[i].lo >= 2

----------------------------------------------------------------------------
(* C20 *)

RECURSIVE Concat(_)
Concat(ws) == IF ws = <<>> THEN <<>> ELSE Head(ws) \o Concat(Tail(ws))

(* s with every '_' and '/' deleted *)
RECURSIVE WithoutSeparators(_)
WithoutSeparators(s) ==
    IF s = <<>> THEN <<>>
    ELSE IF IsSeparator(Head(s)) THEN WithoutSeparators(Tail(s))
    ELSE <<Head(s)>> \o WithoutSeparators(Tail(s))

(* C20: no character is lost, duplicated or reordered: for every input    *)
(* without code point 0, the words of the final list concatenated in order *)
(* are, compared case-insensitively, the prefix-stripped input with every  *)
(* '_' and '/' deleted; and at every point of the scan the words emitted   *)
(* so far cover in the same sense the input before start.                  *)
C20_NothingLost ==
    eof \notin Range(p.input) =>
        /\ state # "panic" =>
              Lower(Concat(p.words)) =
                  Lower(WithoutSeparators(Slice(p.input, 0, p.start)))
        /\ Finished =>
              Lower(Concat(p.words)) = Lower(WithoutSeparators(p.input))

(* a finished call on a name with a fold, a subtest and a later word *)
C20_Witness ==
    /\ Finished
    /\ eof \notin Range(p.input)
    /\ Fired # {}
    /\ Slash \in Range(p.input)
    /\ Len(p.words) >= 2
    /\ Len(Concat(p.words)) < Len(p.input)

====
